---- MODULE Spec2Model ----
(***************************************************************************)
(* A model of src/src/analytics.py: the reader (read_game_stats), the      *)
(* aggregator (calculate_analytics), the writer (write_analytics) and the  *)
(* orchestrator (run_analytics), run against a small file system.          *)
(*                                                                         *)
(* Text is modelled by TLA+ strings; a character is a string of length 1.  *)
(* Python's None is the value None below, a string no cell can hold.       *)
(***************************************************************************)
EXTENDS Integers, Sequences, FiniteSets, TLC

VARIABLES
    files,        \* the input directory: file name -> file (unchanged by a run)
    outDir,       \* what output_dir is on disk: "missing", "exists", "cwd", "unwritable"
    outFile,      \* the report file: [exists |-> BOOLEAN, content |-> text]
    pc,           \* position of run_analytics
    csv_files,    \* the listing glob returned, in its order
    idx,          \* index into csv_files of the file of the current loop turn
    all_games,    \* run_analytics' accumulator
    games,        \* read_game_stats' local list
    line,         \* number of lines of the open file the csv reader has consumed
    handles,      \* the open file handles
    exc,          \* the exception in flight, or NoExc
    analytics,    \* the value calculate_analytics returned
    ret,          \* how the last run_analytics call ended
    run,          \* number of the current run_analytics call
    hist          \* history of the current run and snapshot of the state before it

vars == <<files, outDir, outFile, pc, csv_files, idx, all_games, games, line,
          handles, exc, analytics, ret, run, hist>>

-----------------------------------------------------------------------------
(* Bounds of the model *)

MaxRows == 2      \* data lines in the whole input directory
MaxRuns == 2      \* consecutive calls of run_analytics on the same directory

-----------------------------------------------------------------------------
(* Text and numbers *)

None == "<None>"

Digits == "0123456789"

IsDigit(c) == \E d \in 1..10 : SubSeq(Digits, d, d) = c

DigitVal(c) == (CHOOSE d \in 1..10 : SubSeq(Digits, d, d) = c) - 1

Abs(n) == IF n < 0 THEN -n ELSE n

\* str(n) of a Python int
RECURSIVE NatToStr(_)
NatToStr(n) ==
    IF n < 10 THEN SubSeq(Digits, n + 1, n + 1)
    ELSE NatToStr(n \div 10) \o SubSeq(Digits, (n % 10) + 1, (n % 10) + 1)

IntToStr(n) == IF n < 0 THEN "-" \o NatToStr(-n) ELSE NatToStr(n)

\* s without its leading and trailing blanks, as int() strips them
RECURSIVE Strip(_)
Strip(s) ==
    IF Len(s) = 0 THEN s
    ELSE IF SubSeq(s, 1, 1) = " " THEN Strip(SubSeq(s, 2, Len(s)))
    ELSE IF SubSeq(s, Len(s), Len(s)) = " " THEN Strip(SubSeq(s, 1, Len(s) - 1))
    ELSE s

HasSign(s) == Len(s) > 0 /\ SubSeq(s, 1, 1) \in {"+", "-"}

Unsigned(s) == IF HasSign(s) THEN SubSeq(s, 2, Len(s)) ELSE s

\* int(s) succeeds: blanks, an optional sign, then at least one decimal digit
IsIntLiteral(s) ==
    LET u == Unsigned(Strip(s))
    IN  /\ Len(u) > 0
        /\ \A i \in 1..Len(u) : IsDigit(SubSeq(u, i, i))

RECURSIVE DigitsToNat(_)
DigitsToNat(u) ==
    IF Len(u) = 0 THEN 0
    ELSE 10 * DigitsToNat(SubSeq(u, 1, Len(u) - 1)) + DigitVal(SubSeq(u, Len(u), Len(u)))

\* int(s) for a text s that int() accepts
ParseInt(s) ==
    LET t == Strip(s)
        n == DigitsToNat(Unsigned(t))
    IN  IF HasSign(t) /\ SubSeq(t, 1, 1) = "-" THEN -n ELSE n

RECURSIVE Pow10(_)
Pow10(k) == IF k = 0 THEN 1 ELSE 10 * Pow10(k - 1)

\* A Python float that round(x, nd) returned: (-1)^neg * mant / 10^nd
\* (neg tells -0.0 from 0.0).
\* round(num / den, nd), den > 0: the multiple of 10^-nd nearest to the
\* quotient, the even one on a tie.  The float quotient and the rational one
\* round alike as long as no tie of the rational quotient is inexact in
\* binary, which needs den to be a multiple of 16 (nd = 1, num a multiple of
\* 100), of 20 (nd = 1) or of 40 (nd = 2); the model keeps den far below.
PyRound(num, den, nd) ==
    LET scaled == Abs(num) * Pow10(nd)
        q      == scaled \div den
        r2     == 2 * (scaled % den)
    IN  [neg  |-> num < 0,
         mant |-> IF r2 > den \/ (r2 = den /\ q % 2 = 1) THEN q + 1 ELSE q,
         nd   |-> nd]

\* The digits after the point in repr(x): the shortest decimal, at least one
\* digit (f < 10^nd, nd <= 2)
RECURSIVE FracStr(_, _)
FracStr(f, nd) ==
    IF nd > 1 /\ f % 10 = 0 THEN FracStr(f \div 10, nd - 1)
    ELSE (IF nd > 1 /\ f < Pow10(nd - 1) THEN "0" ELSE "") \o NatToStr(f)

\* repr(x) of such a float, as json.dump writes it
FloatRepr(x) ==
    LET p == Pow10(x.nd)
    IN  (IF x.neg THEN "-" ELSE "") \o NatToStr(x.mant \div p) \o "."
            \o FracStr(x.mant % p, x.nd)

-----------------------------------------------------------------------------
(* The reader: csv.DictReader and the record built from one row *)

Fields ==
    <<"game_id", "date", "opponent", "home_away", "points_scored",
      "points_allowed", "rushing_yards", "passing_yards", "turnovers", "result">>

IntFields ==
    {"game_id", "points_scored", "points_allowed", "rushing_yards",
     "passing_yards", "turnovers"}

Range(s) == {s[i] : i \in 1..Len(s)}

\* The dict csv.DictReader yields for a row under the header fieldnames: the
\* cells by column name, None for the columns a short row does not reach
\* (cells beyond the header go under the key None, which nothing reads).
DictRow(fieldnames, row) ==
    [k \in Range(fieldnames) |->
        LET i == CHOOSE j \in 1..Len(fieldnames) :
                    /\ fieldnames[j] = k
                    /\ \A h \in (j + 1)..Len(fieldnames) : fieldnames[h] # k
        IN  IF i <= Len(row) THEN row[i] ELSE None]

NoExc == [type |-> "none", arg |-> ""]

\* What evaluating the field f of the dict literal raises, or NoExc:
\* row[f] raises KeyError when the header has no column f, int(None)
\* TypeError, int(text) ValueError when text is no integer literal.
FieldError(d, f) ==
    IF f \notin DOMAIN d THEN [type |-> "KeyError", arg |-> f]
    ELSE IF f \notin IntFields THEN NoExc
    ELSE IF d[f] = None THEN [type |-> "TypeError", arg |-> f]
    ELSE IF ~IsIntLiteral(d[f]) THEN [type |-> "ValueError", arg |-> d[f]]
    ELSE NoExc

\* The exception the dict literal raises for the row d, or NoExc: the fields
\* are evaluated in the order written, the first failure ends the evaluation.
RowError(d) ==
    IF \A i \in 1..Len(Fields) : FieldError(d, Fields[i]) = NoExc THEN NoExc
    ELSE LET i == CHOOSE j \in 1..Len(Fields) :
                    /\ FieldError(d, Fields[j]) # NoExc
                    /\ \A h \in 1..(j - 1) : FieldError(d, Fields[h]) = NoExc
         IN  FieldError(d, Fields[i])

\* The game record of a row the dict literal accepts
MakeGame(d) ==
    [game_id        |-> ParseInt(d["game_id"]),
     date           |-> d["date"],
     opponent       |-> d["opponent"],
     home_away      |-> d["home_away"],
     points_scored  |-> ParseInt(d["points_scored"]),
     points_allowed |-> ParseInt(d["points_allowed"]),
     rushing_yards  |-> ParseInt(d["rushing_yards"]),
     passing_yards  |-> ParseInt(d["passing_yards"]),
     turnovers      |-> ParseInt(d["turnovers"]),
     result         |-> d["result"]]

-----------------------------------------------------------------------------
(* The aggregator *)

\* A count that takes "w" for a win too
RECURSIVE CountWinsAnyCase(_)
CountWinsAnyCase(gs) ==
    IF Len(gs) = 0 THEN 0
    ELSE (IF gs[1].result \in {"W", "w"} THEN 1 ELSE 0) + CountWinsAnyCase(Tail(gs))

\* sum(1 for g in gs if g["result"] == "W")
RECURSIVE CountWins(_)
CountWins(gs) ==
    IF Len(gs) = 0 THEN 0
    ELSE (IF gs[1].result = "W" THEN 1 ELSE 0) + CountWins(Tail(gs))

\* A sum that skips a game whose game_id comes again later in the list
RECURSIVE SumDistinctIds(_, _)
SumDistinctIds(gs, f) ==
    IF Len(gs) = 0 THEN 0
    ELSE (IF \E i \in 2..Len(gs) : gs[i].game_id = gs[1].game_id THEN 0 ELSE gs[1][f])
            + SumDistinctIds(Tail(gs), f)

\* A total that is assigned where it should be added to
SumFieldLast(gs, f) == IF Len(gs) = 0 THEN 0 ELSE gs[Len(gs)][f]

\* sum(g[f] for g in gs)
RECURSIVE SumField(_, _)
SumField(gs, f) ==
    IF Len(gs) = 0 THEN 0 ELSE gs[1][f] + SumField(Tail(gs), f)

\* g["home_away"] == side
IsOn(g, side) == g.home_away = side

\* A split that takes every game not on the other side
SideGamesNotOther(gs, side) ==
    LET other == IF side = "home" THEN "away" ELSE "home"
        Test(g) == ~IsOn(g, other)
    IN  SelectSeq(gs, Test)

\* [g for g in gs if g["home_away"] == side]
SideGames(gs, side) ==
    LET Test(g) == IsOn(g, side)
    IN  SelectSeq(gs, Test)

\* f"{wins}-{n - wins}"
RecordStr(wins, n) == IntToStr(wins) \o "-" \o IntToStr(n - wins)

\* The empty dict {}
EmptyDict == [k \in {} |-> {}]

calculate_analytics(gs) ==
    IF Len(gs) = 0 THEN EmptyDict
    ELSE
    LET total_games          == Len(gs)
        wins                 == CountWins(gs)
        losses               == total_games - wins
        total_points_scored  == SumField(gs, "points_scored")
        total_points_allowed == SumField(gs, "points_allowed")
        total_rushing_yards  == SumField(gs, "rushing_yards")
        total_passing_yards  == SumField(gs, "passing_yards")
        total_turnovers      == SumField(gs, "turnovers")
        home_games           == SideGames(gs, "home")
        away_games           == SideGames(gs, "away")
        home_wins            == CountWins(home_games)
        away_wins            == CountWins(away_games)
    IN  [summary |->
            [total_games    |-> total_games,
             wins           |-> wins,
             losses         |-> losses,
             win_percentage |-> IF total_games > 0
                                THEN PyRound(wins * 100, total_games, 1) ELSE 0],
         scoring |->
            [total_points_scored  |-> total_points_scored,
             total_points_allowed |-> total_points_allowed,
             avg_points_scored    |-> PyRound(total_points_scored, total_games, 1),
             avg_points_allowed   |-> PyRound(total_points_allowed, total_games, 1),
             point_differential   |-> total_points_scored - total_points_allowed],
         offense |->
            [total_rushing_yards |-> total_rushing_yards,
             total_passing_yards |-> total_passing_yards,
             total_yards         |-> total_rushing_yards + total_passing_yards,
             avg_rushing_yards   |-> PyRound(total_rushing_yards, total_games, 1),
             avg_passing_yards   |-> PyRound(total_passing_yards, total_games, 1),
             avg_total_yards     |->
                PyRound(total_rushing_yards + total_passing_yards, total_games, 1)],
         turnovers |->
            [total_turnovers        |-> total_turnovers,
             avg_turnovers_per_game |-> PyRound(total_turnovers, total_games, 2)],
         home_away |->
            [home_record |-> RecordStr(home_wins, Len(home_games)),
             away_record |-> RecordStr(away_wins, Len(away_games))]]

-----------------------------------------------------------------------------
(* The writer: the text json.dump(analytics, jsonfile, indent=2) writes *)

Quoted(s) == "\"" \o s \o "\""

\* One member line of an inner object, at indent 4
Member(key, text, last) ==
    "    " \o Quoted(key) \o ": " \o text \o (IF last THEN "\n" ELSE ",\n")

\* One category: its key, its members, the closing brace at indent 2
Category(key, members, last) ==
    "  " \o Quoted(key) \o ": {\n" \o members \o "  }" \o (IF last THEN "\n" ELSE ",\n")

JsonDump(a) ==
    IF DOMAIN a = {} THEN "{}"
    ELSE
    "{\n"
    \o Category("summary",
            Member("total_games", IntToStr(a.summary.total_games), FALSE)
         \o Member("wins", IntToStr(a.summary.wins), FALSE)
         \o Member("losses", IntToStr(a.summary.losses), FALSE)
         \o Member("win_percentage", FloatRepr(a.summary.win_percentage), TRUE),
         FALSE)
    \o Category("scoring",
            Member("total_points_scored", IntToStr(a.scoring.total_points_scored), FALSE)
         \o Member("total_points_allowed", IntToStr(a.scoring.total_points_allowed), FALSE)
         \o Member("avg_points_scored", FloatRepr(a.scoring.avg_points_scored), FALSE)
         \o Member("avg_points_allowed", FloatRepr(a.scoring.avg_points_allowed), FALSE)
         \o Member("point_differential", IntToStr(a.scoring.point_differential), TRUE),
         FALSE)
    \o Category("offense",
            Member("total_rushing_yards", IntToStr(a.offense.total_rushing_yards), FALSE)
         \o Member("total_passing_yards", IntToStr(a.offense.total_passing_yards), FALSE)
         \o Member("total_yards", IntToStr(a.offense.total_yards), FALSE)
         \o Member("avg_rushing_yards", FloatRepr(a.offense.avg_rushing_yards), FALSE)
         \o Member("avg_passing_yards", FloatRepr(a.offense.avg_passing_yards), FALSE)
         \o Member("avg_total_yards", FloatRepr(a.offense.avg_total_yards), TRUE),
         FALSE)
    \o Category("turnovers",
            Member("total_turnovers", IntToStr(a.turnovers.total_turnovers), FALSE)
         \o Member("avg_turnovers_per_game",
                   FloatRepr(a.turnovers.avg_turnovers_per_game), TRUE),
         FALSE)
    \o Category("home_away",
            Member("home_record", Quoted(a.home_away.home_record), FALSE)
         \o Member("away_record", Quoted(a.home_away.away_record), TRUE),
         TRUE)
    \o "}"

-----------------------------------------------------------------------------
(* The file system a run starts from *)

FileNames == {"a.csv", "b.csv"}

ReportName == "eagles_analytics_report.json"

Row(id, ha, ps, pa, to, res) ==
    <<id, "2024-09-08", "DAL", ha, ps, pa, "120", "250", to, res>>

HomeWin == Row("1", "home", "30", "20", "1", "W")

\* The lines a data file may hold: well-formed rows (one repeats a game_id and
\* spells its result in lower case), a row whose turnovers is no integer, a
\* row that stops before result, one that stops before turnovers, and a blank
\* line.
Rows ==
    { HomeWin,
      Row("2", "away", "17", "24", "2", "L"),
      Row("1", "neutral", " +21", "21", "0", "w"),
      Row("3", "home", "10", "13", "x", "W"),
      SubSeq(HomeWin, 1, 9),
      SubSeq(HomeWin, 1, 8),
      <<>> }

RowSeqs == UNION {[1..k -> Rows] : k \in 0..MaxRows}

\* A file: whether open() may read it, and its lines, the header first
Unreadable == [readable |-> FALSE, lines |-> <<>>]

ZeroBytes == [readable |-> TRUE, lines |-> <<>>]

NoTurnoversColumn ==
    [readable |-> TRUE,
     lines    |-> <<SubSeq(Fields, 1, 8) \o <<"result">>,
                    SubSeq(HomeWin, 1, 8) \o <<"W">> >>]

Contents ==
    {[readable |-> TRUE, lines |-> <<Fields>> \o rows] : rows \in RowSeqs}
        \cup {Unreadable, ZeroBytes, NoTurnoversColumn}

BodyLines(f) == IF Len(f.lines) = 0 THEN 0 ELSE Len(f.lines) - 1

RECURSIVE SumOver(_, _)
SumOver(F(_), S) ==
    IF S = {} THEN 0
    ELSE LET x == CHOOSE y \in S : TRUE IN F(x) + SumOver(F, S \ {x})

\* The input directories: no file, one or two, at most MaxRows lines below
\* the headers in all.  The listing order being arbitrary, the two names are
\* interchangeable: of the directories that differ by the names only, the one
\* with the shorter file under the first name stands for both.
Directories ==
    {d \in UNION {[S -> Contents] : S \in {{}, {"a.csv"}, FileNames}} :
        /\ LET N(n) == BodyLines(d[n]) IN SumOver(N, DOMAIN d) <= MaxRows
        /\ DOMAIN d = FileNames => BodyLines(d["a.csv"]) <= BodyLines(d["b.csv"])}

Absent == [exists |-> FALSE, content |-> ""]

Stale == [exists |-> TRUE, content |-> "{\"stale\": true}"]

\* output_dir and the report file before the first run.  "missing": the
\* directory does not exist yet; "exists": it does; "cwd": output_dir is "."
\* or "", so that the report path has no directory part; "unwritable": the
\* report file cannot be opened for writing.
OutStates ==
    { <<"missing", Absent>>, <<"exists", Stale>>, <<"cwd", Stale>>,
      <<"unwritable", Stale>> }

Perms(S) ==
    {p \in [1..Cardinality(S) -> S] : \A i, j \in DOMAIN p : i # j => p[i] # p[j]}

NewHist(prev) ==
    [startDir   |-> outDir,      \* output_dir when the run began
     startFile  |-> outFile,     \* the report file when the run began
     opened     |-> <<>>,        \* files read_game_stats opened, in order
     readsDone  |-> 0,           \* calls of read_game_stats that returned
     calcCalls  |-> 0,           \* calls of calculate_analytics
     writeCalls |-> 0,           \* calls of write_analytics
     dumps      |-> 0,           \* times the report text was written
     prev       |-> prev]        \* listing and outcome of the run before

NoPrev == [listing |-> <<>>, kind |-> "none", file |-> Absent]

NoRet == [kind |-> "none", value |-> EmptyDict]

Init ==
    /\ files \in Directories
    /\ \E o \in OutStates : outDir = o[1] /\ outFile = o[2]
    /\ pc = "idle"
    /\ csv_files = <<>>
    /\ idx = 0
    /\ all_games = <<>>
    /\ games = <<>>
    /\ line = 0
    /\ handles = {}
    /\ exc = NoExc
    /\ analytics = EmptyDict
    /\ ret = NoRet
    /\ run = 1
    /\ hist = NewHist(NoPrev)

-----------------------------------------------------------------------------
(* run_analytics *)

env == <<files, run>>

\* A start that does not return early when glob finds nothing
RunNoFilesFallThrough ==
    /\ pc = "idle"
    /\ DOMAIN files = {}
    /\ csv_files' = <<>>
    /\ all_games' = <<>>
    /\ pc' = "calc"
    /\ UNCHANGED <<env, outDir, outFile, idx, games, line, handles, exc,
                   analytics, ret, hist>>

\* glob finds no *.csv file: print and return {}
RunNoFiles ==
    /\ pc = "idle"
    /\ DOMAIN files = {}
    /\ csv_files' = <<>>
    /\ ret' = [kind |-> "value", value |-> EmptyDict]
    /\ pc' = "returned"
    /\ UNCHANGED <<env, outDir, outFile, idx, all_games, games, line, handles,
                   exc, analytics, hist>>

\* glob lists the *.csv files in an order of the file system's choosing;
\* all_games = [] and the loop begins
RunStart ==
    /\ pc = "idle"
    /\ DOMAIN files # {}
    /\ csv_files' \in Perms(DOMAIN files)
    /\ all_games' = <<>>
    /\ idx' = 1
    /\ pc' = "read_open"
    /\ UNCHANGED <<env, outDir, outFile, games, line, handles, exc, analytics,
                   ret, hist>>

csv_file == csv_files[idx]

ReadHandle == [path |-> csv_file, mode |-> "r"]

\* read_game_stats: games = [] and open(input_path, "r"), which raises when
\* the file cannot be read; nothing in run_analytics catches
ReadOpen ==
    /\ pc = "read_open"
    /\ games' = <<>>
    /\ hist' = [hist EXCEPT !.opened = Append(@, csv_file)]
    /\ IF files[csv_file].readable
       THEN /\ handles' = handles \cup {ReadHandle}
            /\ line' = 0
            /\ pc' = "read_rows"
            /\ UNCHANGED <<exc, ret>>
       ELSE /\ exc' = [type |-> "PermissionError", arg |-> csv_file]
            /\ ret' = [kind |-> "raised", value |-> exc']
            /\ pc' = "raised"
            /\ UNCHANGED <<handles, line>>
    /\ UNCHANGED <<env, outDir, outFile, csv_files, idx, all_games, analytics>>

\* The line DictReader's next row comes from: the first line is the header,
\* blank lines are passed over; 0 when the file has no further row
NextRowLine(f, consumed) ==
    LET from == IF consumed = 0 THEN 2 ELSE consumed + 1
        cand == {j \in from..Len(f.lines) : f.lines[j] # <<>>}
    IN  IF cand = {} THEN 0 ELSE CHOOSE j \in cand : \A h \in cand : j <= h

CurrentDict ==
    LET f == files[csv_file]
    IN  DictRow(f.lines[1], f.lines[NextRowLine(f, line)])

\* One turn of "for row in reader" that builds the game and appends it
ReadRow ==
    /\ pc = "read_rows"
    /\ NextRowLine(files[csv_file], line) # 0
    /\ RowError(CurrentDict) = NoExc
    /\ games' = Append(games, MakeGame(CurrentDict))
    /\ line' = NextRowLine(files[csv_file], line)
    /\ UNCHANGED <<env, outDir, outFile, pc, csv_files, idx, all_games, handles,
                   exc, analytics, ret, hist>>

\* One turn of the loop in which the dict literal raises
ReadRowRaise ==
    /\ pc = "read_rows"
    /\ NextRowLine(files[csv_file], line) # 0
    /\ RowError(CurrentDict) # NoExc
    /\ exc' = RowError(CurrentDict)
    /\ line' = NextRowLine(files[csv_file], line)
    /\ pc' = "read_exit"
    /\ UNCHANGED <<env, outDir, outFile, csv_files, idx, all_games, games,
                   handles, analytics, ret, hist>>

\* The reader is exhausted: the loop ends
ReadEof ==
    /\ pc = "read_rows"
    /\ NextRowLine(files[csv_file], line) = 0
    /\ line' = Len(files[csv_file].lines)
    /\ pc' = "read_exit"
    /\ UNCHANGED <<env, outDir, outFile, csv_files, idx, all_games, games,
                   handles, exc, analytics, ret, hist>>

\* An exit that leaves the file open when an exception is in flight
ReadExitKeepOpen ==
    /\ pc = "read_exit"
    /\ handles' = IF exc # NoExc THEN handles ELSE handles \ {ReadHandle}
    /\ IF exc # NoExc
       THEN /\ ret' = [kind |-> "raised", value |-> exc]
            /\ pc' = "raised"
            /\ UNCHANGED <<all_games, idx, hist>>
       ELSE /\ all_games' = all_games \o games
            /\ idx' = idx + 1
            /\ hist' = [hist EXCEPT !.readsDone = @ + 1]
            /\ pc' = IF idx < Len(csv_files) THEN "read_open" ELSE "calc"
            /\ UNCHANGED ret
    /\ UNCHANGED <<env, outDir, outFile, csv_files, games, line, exc, analytics>>

\* An exit that drops the exception and goes on with the rows read so far
ReadExitSwallow ==
    /\ pc = "read_exit"
    /\ handles' = handles \ {ReadHandle}
    /\ all_games' = all_games \o games
    /\ idx' = idx + 1
    /\ hist' = [hist EXCEPT !.readsDone = IF exc = NoExc THEN @ + 1 ELSE @]
    /\ pc' = IF idx < Len(csv_files) THEN "read_open" ELSE "calc"
    /\ exc' = NoExc
    /\ UNCHANGED <<env, outDir, outFile, csv_files, games, line, analytics, ret>>

\* An exit that puts the new games in front of the earlier ones
ReadExitPrepend ==
    /\ pc = "read_exit"
    /\ handles' = handles \ {ReadHandle}
    /\ IF exc # NoExc
       THEN /\ ret' = [kind |-> "raised", value |-> exc]
            /\ pc' = "raised"
            /\ UNCHANGED <<all_games, idx, hist>>
       ELSE /\ all_games' = games \o all_games
            /\ idx' = idx + 1
            /\ hist' = [hist EXCEPT !.readsDone = @ + 1]
            /\ pc' = IF idx < Len(csv_files) THEN "read_open" ELSE "calc"
            /\ UNCHANGED ret
    /\ UNCHANGED <<env, outDir, outFile, csv_files, games, line, exc, analytics>>

\* Leaving the with block closes the file.  Then either the exception in
\* flight leaves read_game_stats and run_analytics, or read_game_stats returns
\* games, run_analytics extends all_games and goes to the next file.
ReadExit ==
    /\ pc = "read_exit"
    /\ handles' = handles \ {ReadHandle}
    /\ IF exc # NoExc
       THEN /\ ret' = [kind |-> "raised", value |-> exc]
            /\ pc' = "raised"
            /\ UNCHANGED <<all_games, idx, hist>>
       ELSE /\ all_games' = all_games \o games
            /\ idx' = idx + 1
            /\ hist' = [hist EXCEPT !.readsDone = @ + 1]
            /\ pc' = IF idx < Len(csv_files) THEN "read_open" ELSE "calc"
            /\ UNCHANGED ret
    /\ UNCHANGED <<env, outDir, outFile, csv_files, games, line, exc, analytics>>

\* analytics = calculate_analytics(all_games)
Calc ==
    /\ pc = "calc"
    /\ analytics' = calculate_analytics(all_games)
    /\ hist' = [hist EXCEPT !.calcCalls = @ + 1]
    /\ pc' = "write_mkdir"
    /\ UNCHANGED <<env, outDir, outFile, csv_files, idx, all_games, games, line,
                   handles, exc, ret>>

WriteHandle == [path |-> ReportName, mode |-> "w"]

\* write_analytics: os.makedirs(os.path.dirname(output_path), exist_ok=True).
\* The directory is made when missing; when the path has no directory part,
\* dirname is "" and makedirs("") raises FileNotFoundError.
WriteMkdir ==
    /\ pc = "write_mkdir"
    /\ hist' = [hist EXCEPT !.writeCalls = @ + 1]
    /\ IF outDir = "cwd"
       THEN /\ exc' = [type |-> "FileNotFoundError", arg |-> ""]
            /\ ret' = [kind |-> "raised", value |-> exc']
            /\ pc' = "raised"
            /\ UNCHANGED outDir
       ELSE /\ outDir' = IF outDir = "missing" THEN "exists" ELSE outDir
            /\ pc' = "write_open"
            /\ UNCHANGED <<exc, ret>>
    /\ UNCHANGED <<env, outFile, csv_files, idx, all_games, games, line,
                   handles, analytics>>

\* open(output_path, "w"): raises when the file cannot be opened for writing,
\* else creates the file or empties it
WriteOpen ==
    /\ pc = "write_open"
    /\ IF outDir = "unwritable"
       THEN /\ exc' = [type |-> "PermissionError", arg |-> ReportName]
            /\ ret' = [kind |-> "raised", value |-> exc']
            /\ pc' = "raised"
            /\ UNCHANGED <<handles, outFile>>
       ELSE /\ handles' = handles \cup {WriteHandle}
            /\ outFile' = [exists |-> TRUE, content |-> ""]
            /\ pc' = "write_dump"
            /\ UNCHANGED <<exc, ret>>
    /\ UNCHANGED <<env, outDir, csv_files, idx, all_games, games, line,
                   analytics, hist>>

\* json.dump(analytics, jsonfile, indent=2)
WriteDump ==
    /\ pc = "write_dump"
    /\ outFile' = [exists |-> TRUE, content |-> outFile.content \o JsonDump(analytics)]
    /\ hist' = [hist EXCEPT !.dumps = @ + 1]
    /\ pc' = "write_exit"
    /\ UNCHANGED <<env, outDir, csv_files, idx, all_games, games, line, handles,
                   exc, analytics, ret>>

\* Leaving the with block closes the report; write_analytics returns,
\* run_analytics prints and returns analytics
WriteExit ==
    /\ pc = "write_exit"
    /\ handles' = handles \ {WriteHandle}
    /\ ret' = [kind |-> "value", value |-> analytics]
    /\ pc' = "returned"
    /\ UNCHANGED <<env, outDir, outFile, csv_files, idx, all_games, games, line,
                   exc, analytics, hist>>

Ended == pc \in {"returned", "raised"}

\* run_analytics is called again on the same, unchanged input directory
RunAgain ==
    /\ Ended
    /\ run < MaxRuns
    /\ run' = run + 1
    /\ pc' = "idle"
    /\ csv_files' = <<>>
    /\ idx' = 0
    /\ all_games' = <<>>
    /\ games' = <<>>
    /\ line' = 0
    /\ exc' = NoExc
    /\ analytics' = EmptyDict
    /\ ret' = NoRet
    /\ hist' = NewHist([listing |-> csv_files, kind |-> ret.kind, file |-> outFile])
    /\ UNCHANGED <<files, outDir, outFile, handles>>

Next ==
    \/ RunNoFiles
    \/ RunStart
    \/ ReadOpen
    \/ ReadRow
    \/ ReadRowRaise
    \/ ReadEof
    \/ ReadExit
    \/ Calc
    \/ WriteMkdir
    \/ WriteOpen
    \/ WriteDump
    \/ WriteExit
    \/ RunAgain

Spec == Init /\ [][Next]_vars

-----------------------------------------------------------------------------
(* What the properties below speak of *)

\* calculate_analytics has been called in this run: analytics is its result
\* for all_games
Calculated == hist.calcCalls > 0

GamesWith(f, v) == {i \in 1..Len(all_games) : all_games[i][f] = v}

\* The two numbers of a record text "<wins>-<losses>", added up
RecordSum(s) ==
    LET dash == CHOOSE i \in 1..Len(s) : SubSeq(s, i, i) = "-"
    IN  DigitsToNat(SubSeq(s, 1, dash - 1)) + DigitsToNat(SubSeq(s, dash + 1, Len(s)))

\* The data lines of the input directory: <<file name, line number>> of every
\* non-blank line below a header
DataLines ==
    {p \in UNION {{<<n, j>> : j \in 2..Len(files[n].lines)} : n \in DOMAIN files} :
        files[p[1]].lines[p[2]] # <<>>}

LineDict(p) == DictRow(files[p[1]].lines[1], files[p[1]].lines[p[2]])

\* What reading the file named n must raise: the open's error, else the
\* error of the first data line that has one, else NoExc
FileError(n) ==
    LET f   == files[n]
        bad == {j \in 2..Len(f.lines) :
                    f.lines[j] # <<>> /\ RowError(DictRow(f.lines[1], f.lines[j])) # NoExc}
    IN  IF ~f.readable THEN [type |-> "PermissionError", arg |-> n]
        ELSE IF bad = {} THEN NoExc
        ELSE RowError(DictRow(f.lines[1],
                              f.lines[CHOOSE j \in bad : \A h \in bad : j <= h]))

\* The records of the non-blank data lines 2..upto of the file named n, in
\* file order
RECURSIVE GamesUpTo(_, _)
GamesUpTo(n, upto) ==
    IF upto < 2 THEN <<>>
    ELSE IF files[n].lines[upto] = <<>> THEN GamesUpTo(n, upto - 1)
    ELSE Append(GamesUpTo(n, upto - 1),
                MakeGame(DictRow(files[n].lines[1], files[n].lines[upto])))

\* The records of the first k listed files, file after file
RECURSIVE ConcatFiles(_)
ConcatFiles(k) ==
    IF k = 0 THEN <<>>
    ELSE ConcatFiles(k - 1) \o GamesUpTo(csv_files[k], Len(files[csv_files[k]].lines))

-----------------------------------------------------------------------------
(* C1: for a non-empty list of games, summary.wins is the number of games  *)
(* whose result is exactly "W", summary.losses is total_games - wins, and  *)
(* wins + losses = total_games with both non-negative.                     *)
C1_WinsAndLosses ==
    (Calculated /\ Len(all_games) > 0) =>
        /\ analytics.summary.total_games = Len(all_games)
        /\ analytics.summary.wins = Cardinality(GamesWith("result", "W"))
        /\ analytics.summary.losses = Len(all_games) - analytics.summary.wins
        /\ analytics.summary.wins + analytics.summary.losses
              = analytics.summary.total_games
        /\ analytics.summary.wins >= 0
        /\ analytics.summary.losses >= 0

\* The summary of a "W" and a "w" has been computed
C1_Witness ==
    /\ Calculated
    /\ GamesWith("result", "W") # {}
    /\ GamesWith("result", "w") # {}

(* C2: for a non-empty list of games, the two numbers of home_record add   *)
(* up to the number of games whose home_away is exactly "home", those of   *)
(* away_record to the number whose home_away is exactly "away"; a game     *)
(* with another home_away is in neither, yet in total_games and in wins or *)
(* losses.                                                                 *)
C2_HomeAwaySplit ==
    (Calculated /\ Len(all_games) > 0) =>
        /\ RecordSum(analytics.home_away.home_record)
              = Cardinality(GamesWith("home_away", "home"))
        /\ RecordSum(analytics.home_away.away_record)
              = Cardinality(GamesWith("home_away", "away"))
        /\ analytics.summary.total_games = Len(all_games)
        /\ analytics.summary.wins + analytics.summary.losses = Len(all_games)

\* The summary of a neutral game and a home game has been computed
C2_Witness ==
    /\ Calculated
    /\ GamesWith("home_away", "neutral") # {}
    /\ GamesWith("home_away", "home") # {}

(* C3: a run on a directory without any csv file ends without an error,    *)
(* returns {}, reads nothing, aggregates nothing, writes nothing: the      *)
(* report file and the output directory are as they were before the run.   *)
C3_NoFilesNoOp ==
    (Ended /\ DOMAIN files = {}) =>
        /\ pc = "returned"
        /\ ret = [kind |-> "value", value |-> EmptyDict]
        /\ hist.opened = <<>>
        /\ hist.calcCalls = 0
        /\ hist.writeCalls = 0
        /\ hist.dumps = 0
        /\ outFile = hist.startFile
        /\ outDir = hist.startDir

\* A run on an empty directory has returned, an earlier report being there
C3_Witness ==
    /\ pc = "returned"
    /\ DOMAIN files = {}
    /\ outFile = Stale

-----------------------------------------------------------------------------
\* The row under the header supplies all ten fields, the six integer fields
\* as integer literals
RowComplete(header, row) ==
    LET d == DictRow(header, row)
    IN  \A i \in 1..Len(Fields) :
            /\ Fields[i] \in DOMAIN d
            /\ d[Fields[i]] # None
            /\ Fields[i] \in IntFields => IsIntLiteral(d[Fields[i]])

(* C4: read_game_stats raises for every data row that lacks one of the ten *)
(* fields or holds a non-integer in an integer field; no such row becomes  *)
(* a game record: when read_game_stats is about to return normally, every *)
(* data row of the file was complete and gave one record with ten fields.  *)
C4_BadRowsRejected ==
    (pc = "read_exit" /\ exc = NoExc) =>
        LET f == files[csv_file]
        IN  /\ \A j \in 2..Len(f.lines) :
                    f.lines[j] # <<>> => RowComplete(f.lines[1], f.lines[j])
            /\ Len(games) = Cardinality({j \in 2..Len(f.lines) : f.lines[j] # <<>>})
            /\ \A i \in 1..Len(games) : \A k \in 1..Len(Fields) :
                    Fields[k] \notin IntFields => games[i][Fields[k]] # None

(* C5: when reading a file fails, that error leaves run_analytics as it    *)
(* was raised, no later file is opened, calculate_analytics and            *)
(* write_analytics are not called and the report file and directory stay   *)
(* as they were; and whenever the aggregation or the write happens, every  *)
(* listed file has been read without error before.                         *)
C5_ReadFailureAborts ==
    /\ (pc = "raised" /\ hist.writeCalls = 0) =>
            /\ hist.opened = SubSeq(csv_files, 1, idx)
            /\ hist.readsDone = idx - 1
            /\ ret = [kind |-> "raised", value |-> FileError(csv_file)]
            /\ ret.value # NoExc
            /\ hist.calcCalls = 0
            /\ hist.dumps = 0
            /\ outFile = hist.startFile
            /\ outDir = hist.startDir
    /\ (hist.calcCalls > 0 \/ hist.writeCalls > 0 \/ hist.dumps > 0) =>
            /\ hist.opened = csv_files
            /\ hist.readsDone = Len(csv_files)
            /\ \A i \in 1..Len(csv_files) : FileError(csv_files[i]) = NoExc

\* A run has ended by the ValueError of the first of two listed files, an
\* earlier report being there
C5_Witness ==
    /\ pc = "raised"
    /\ ret.value.type = "ValueError"
    /\ Len(csv_files) = 2
    /\ idx = 1
    /\ outFile = Stale

Permuted(gs, p) == [i \in 1..Len(gs) |-> gs[p[i]]]

(* C6: the summary depends on the multiset of games only: every            *)
(* permutation of the list gives the same summary; and a second run over   *)
(* the same files leaves the report file with the content the first run    *)
(* left, whatever the two listings' orders.                                *)
C6_OrderIndependent ==
    /\ pc = "write_mkdir" =>
            \A p \in Perms(1..Len(all_games)) :
                calculate_analytics(Permuted(all_games, p)) = analytics
    /\ (Ended /\ run > 1) => outFile = hist.prev.file

\* The second run has written the report of two different games, the first
\* run having listed the two files the other way round
C6_Witness ==
    /\ pc = "returned"
    /\ run > 1
    /\ hist.dumps = 1
    /\ hist.prev.kind = "value"
    /\ Len(csv_files) = 2
    /\ hist.prev.listing # csv_files
    /\ Len(all_games) = 2
    /\ all_games[1] # all_games[2]

(* C7: at most one file handle is open at any point; the handle a read or  *)
(* the write opened is closed when that operation returns or raises, so    *)
(* none is open when the next read or the write begins nor when            *)
(* run_analytics has ended, normally or by an error.                       *)
C7_HandlesScoped ==
    /\ Cardinality(handles) <= 1
    /\ pc \in {"read_rows", "read_exit"} => handles = {ReadHandle}
    /\ pc \in {"write_dump", "write_exit"} => handles = {WriteHandle}
    /\ pc \in {"idle", "read_open", "calc", "write_mkdir", "write_open",
               "returned", "raised"} => handles = {}

\* A run has ended by a row's error, raised while the file was open
C7_Witness ==
    /\ pc = "raised"
    /\ exc.type \in {"KeyError", "TypeError", "ValueError"}
    /\ handles = {}

(* C8: the list handed to calculate_analytics is the concatenation, in     *)
(* listing order, of the files' records, each file's in file order; a file *)
(* is read to its end before the next is begun, and nothing is reordered   *)
(* or dropped.                                                             *)
C8_ConcatenationInOrder ==
    /\ (pc = "calc" \/ Calculated) => all_games = ConcatFiles(Len(csv_files))
    /\ pc \in {"read_rows", "read_exit"} =>
            /\ all_games = ConcatFiles(idx - 1)
            /\ games = GamesUpTo(csv_file, IF exc = NoExc THEN line ELSE line - 1)
            /\ hist.opened = SubSeq(csv_files, 1, idx)
    /\ pc = "read_open" =>
            /\ all_games = ConcatFiles(idx - 1)
            /\ hist.opened = SubSeq(csv_files, 1, idx - 1)

\* The records of two files, one different game each, are about to be
\* aggregated
C8_Witness ==
    /\ pc = "calc"
    /\ Len(csv_files) = 2
    /\ Len(all_games) = 2
    /\ all_games[1] # all_games[2]
    /\ \A i \in 1..2 : BodyLines(files[csv_files[i]]) = 1

(* C9: rows are not deduplicated: after a successful run over files with   *)
(* at least one data row, total_games is the number of data rows of all    *)
(* files and every total is the sum over all of these rows, also when rows *)
(* share a game_id.                                                        *)
C9_NoDeduplication ==
    (pc = "returned" /\ DataLines # {}) =>
        LET Of(f) == LET V(p) == ParseInt(LineDict(p)[f]) IN SumOver(V, DataLines)
        IN  /\ analytics.summary.total_games = Cardinality(DataLines)
            /\ analytics.scoring.total_points_scored = Of("points_scored")
            /\ analytics.scoring.total_points_allowed = Of("points_allowed")
            /\ analytics.offense.total_rushing_yards = Of("rushing_yards")
            /\ analytics.offense.total_passing_yards = Of("passing_yards")
            /\ analytics.offense.total_yards = Of("rushing_yards") + Of("passing_yards")
            /\ analytics.turnovers.total_turnovers = Of("turnovers")

\* A run has succeeded over two data rows with the same game_id
C9_Witness ==
    /\ pc = "returned"
    /\ \E p, q \in DataLines :
            /\ p # q
            /\ ParseInt(LineDict(p)["game_id"]) = ParseInt(LineDict(q)["game_id"])

(* C10: the report is written exactly once in a run if and only if at      *)
(* least one csv file was found and every one was read without error;      *)
(* when the files hold no data row at all, the report is still written,    *)
(* its content is {}, it replaces what the file held, and run_analytics    *)
(* returns {}.  (A destination that cannot be opened for writing is left   *)
(* aside: there the writer is meant to fail.)                              *)
C10_WrittenIffAllRead ==
    (Ended /\ outDir # "unwritable") =>
        /\ hist.dumps <= 1
        /\ hist.dumps = 1 <=>
                /\ Len(csv_files) >= 1
                /\ \A i \in 1..Len(csv_files) : FileError(csv_files[i]) = NoExc
        /\ (DOMAIN files # {} /\ DataLines = {}
                /\ \A n \in DOMAIN files : files[n].readable) =>
                /\ outFile = [exists |-> TRUE, content |-> "{}"]
                /\ ret = [kind |-> "value", value |-> EmptyDict]

=============================================================================
